---- MODULE Spec2Model ----
(***************************************************************************)
(* Model of the invoice validation engine of backend/validar_factura.py:   *)
(* parse_numeric, es_fecha_valida, validar_campos_principales,             *)
(* validar_items and validar_factura.                                      *)
(*                                                                         *)
(* Strings are sequences of one-character strings.  Python floats are      *)
(* IEEE-754 doubles: a double is kept as sign, odd integer mantissa and    *)
(* binary exponent, the mantissa being a little-endian sequence of         *)
(* 15-bit limbs, and every arithmetic operation rounds its exact result    *)
(* to 53 significant bits, ties to even, as the hardware does.             *)
(***************************************************************************)
EXTENDS Integers, Sequences, FiniteSets, TLC

(***************************************************************************)
(* Unbounded naturals as little-endian limb sequences (no high zero limb). *)
(***************************************************************************)
LB == 2^15

RECURSIVE LNorm(_)
LNorm(a) ==
    IF a = <<>> THEN <<>>
    ELSE IF a[Len(a)] = 0 THEN LNorm(SubSeq(a, 1, Len(a) - 1)) ELSE a

LimbAt(a, i) == IF i <= Len(a) THEN a[i] ELSE 0

RECURSIVE LAddC(_, _, _, _)
LAddC(a, b, i, c) ==
    IF i > Len(a) /\ i > Len(b)
    THEN IF c = 0 THEN <<>> ELSE <<c>>
    ELSE LET s == LimbAt(a, i) + LimbAt(b, i) + c
         IN  <<s % LB>> \o LAddC(a, b, i + 1, s \div LB)

LAdd(a, b) == LAddC(a, b, 1, 0)

RECURSIVE LSubC(_, _, _, _)
LSubC(a, b, i, c) ==
    IF i > Len(a) THEN <<>>
    ELSE LET s == a[i] - LimbAt(b, i) - c
         IN  IF s < 0 THEN <<s + LB>> \o LSubC(a, b, i + 1, 1)
             ELSE <<s>> \o LSubC(a, b, i + 1, 0)

\* a - b for a >= b
LSub(a, b) == LNorm(LSubC(a, b, 1, 0))

RECURSIVE LCmpAt(_, _, _)
LCmpAt(a, b, i) ==
    IF i = 0 THEN 0
    ELSE IF a[i] > b[i] THEN 1
    ELSE IF a[i] < b[i] THEN -1
    ELSE LCmpAt(a, b, i - 1)

\* -1, 0, 1 as a < b, a = b, a > b
LCmp(a, b) ==
    IF Len(a) > Len(b) THEN 1
    ELSE IF Len(a) < Len(b) THEN -1
    ELSE LCmpAt(a, b, Len(a))

RECURSIVE LMulSmallC(_, _, _, _)
LMulSmallC(a, k, i, c) ==
    IF i > Len(a)
    THEN IF c = 0 THEN <<>> ELSE <<c>>
    ELSE LET s == a[i] * k + c
         IN  <<s % LB>> \o LMulSmallC(a, k, i + 1, s \div LB)

\* a * k + c for 0 <= k < LB, 0 <= c < LB
LMulSmall(a, k, c) == LNorm(LMulSmallC(a, k, 1, c))

Zeros(n) == [i \in 1..n |-> 0]

RECURSIVE LMulAt(_, _, _)
LMulAt(a, b, i) ==
    IF i > Len(b) THEN <<>>
    ELSE LAdd(IF b[i] = 0 THEN <<>> ELSE Zeros(i - 1) \o LMulSmall(a, b[i], 0),
              LMulAt(a, b, i + 1))

LMul(a, b) == IF a = <<>> \/ b = <<>> THEN <<>> ELSE LNorm(LMulAt(a, b, 1))

RECURSIVE LDivSmallAt(_, _, _, _)
\* quotient limbs from limb i down to 1 (big-endian), and the final remainder
LDivSmallAt(a, k, i, r) ==
    IF i = 0 THEN [q |-> <<>>, r |-> r]
    ELSE LET cur  == r * LB + a[i]
             rest == LDivSmallAt(a, k, i - 1, cur % k)
         IN  [q |-> rest.q \o <<cur \div k>>, r |-> rest.r]

\* a \div k and a % k for 0 < k <= LB
LDivSmall(a, k) ==
    LET d == LDivSmallAt(a, k, Len(a), 0)
    IN  [q |-> LNorm(d.q), r |-> d.r]

RECURSIVE IntBitLen(_)
IntBitLen(n) == IF n = 0 THEN 0 ELSE 1 + IntBitLen(n \div 2)

LBitLen(a) == IF a = <<>> THEN 0 ELSE 15 * (Len(a) - 1) + IntBitLen(a[Len(a)])

\* a * 2^k
LShl(a, k) ==
    IF a = <<>> THEN <<>>
    ELSE Zeros(k \div 15) \o LMulSmall(a, 2^(k % 15), 0)

\* a \div 2^k
LShr(a, k) ==
    IF k \div 15 >= Len(a) THEN <<>>
    ELSE LDivSmall(SubSeq(a, (k \div 15) + 1, Len(a)), 2^(k % 15)).q

\* a % 2^k
LLow(a, k) ==
    IF k \div 15 >= Len(a) THEN a
    ELSE LNorm(SubSeq(a, 1, k \div 15) \o <<a[(k \div 15) + 1] % 2^(k % 15)>>)

RECURSIVE LFromInt(_)
LFromInt(n) == IF n = 0 THEN <<>> ELSE <<n % LB>> \o LFromInt(n \div LB)

LOne == <<1>>

\* number of low zero bits of a # 0
RECURSIVE IntTrail(_)
IntTrail(n) == IF n % 2 = 1 THEN 0 ELSE 1 + IntTrail(n \div 2)

RECURSIVE LTrail(_, _)
LTrail(a, i) == IF a[i] = 0 THEN 15 + LTrail(a, i + 1) ELSE IntTrail(a[i])

(***************************************************************************)
(* IEEE-754 doubles.  A double is (-1)^neg * m * 2^e with m odd, or zero.  *)
(* The inputs of the model stay far from the overflow and underflow        *)
(* thresholds, so the exponent is not clamped.                             *)
(***************************************************************************)
FZero == [neg |-> FALSE, m |-> <<>>, e |-> 0]

Canon(neg, M, e) ==
    IF M = <<>> THEN FZero
    ELSE LET t == LTrail(M, 1)
         IN  [neg |-> neg, m |-> LShr(M, t), e |-> e + t]

\* the double nearest to M * 2^e (plus a positive part below one unit of M
\* when sticky), ties to even
RoundToDouble(neg, M, e, sticky) ==
    LET n == LBitLen(M)
    IN  IF n <= 53 THEN Canon(neg, M, e)
        ELSE LET d   == n - 53
                 q   == LShr(M, d)
                 c   == LCmp(LLow(M, d), LShl(LOne, d - 1))
                 odd == q # <<>> /\ q[1] % 2 = 1
                 up  == c > 0 \/ (c = 0 /\ (sticky \/ odd))
             IN  Canon(neg, IF up THEN LAdd(q, LOne) ELSE q, e + d)

FNeg(x) == IF x.m = <<>> THEN x ELSE [x EXCEPT !.neg = ~x.neg]

FAbs(x) == [x EXCEPT !.neg = FALSE]

\* x + y
FAdd(x, y) ==
    IF x.m = <<>> THEN y
    ELSE IF y.m = <<>> THEN x
    ELSE LET e == IF x.e < y.e THEN x.e ELSE y.e
             X == LShl(x.m, x.e - e)
             Y == LShl(y.m, y.e - e)
         IN  IF x.neg = y.neg THEN RoundToDouble(x.neg, LAdd(X, Y), e, FALSE)
             ELSE IF LCmp(X, Y) >= 0 THEN RoundToDouble(x.neg, LSub(X, Y), e, FALSE)
             ELSE RoundToDouble(y.neg, LSub(Y, X), e, FALSE)

\* x - y
FSub(x, y) == FAdd(x, FNeg(y))

\* x * y
FMul(x, y) ==
    IF x.m = <<>> \/ y.m = <<>> THEN FZero
    ELSE RoundToDouble(x.neg # y.neg, LMul(x.m, y.m), x.e + y.e, FALSE)

\* x > y
FGt(x, y) ==
    LET d == FSub(x, y)
    IN  d.m # <<>> /\ ~d.neg

\* x == int(x)
FIsInteger(x) == x.e >= 0

RECURSIVE DivTen(_, _, _)
\* X \div 10^k, and whether any remainder was dropped
DivTen(X, k, sticky) ==
    IF k = 0 THEN [q |-> X, sticky |-> sticky]
    ELSE LET d == LDivSmall(X, 10)
         IN  DivTen(d.q, k - 1, sticky \/ d.r # 0)

\* the double nearest to N / 10^k: what float() returns for the decimal
\* literal with digits N and k digits after the point
FromDecimal(neg, N, k) ==
    IF N = <<>> THEN FZero
    ELSE IF k = 0 THEN RoundToDouble(neg, N, 0, FALSE)
    ELSE LET want == 56 + 4 * k - LBitLen(N)
             s    == IF want > 0 THEN want ELSE 0
             d    == DivTen(LShl(N, s), k, FALSE)
         IN  RoundToDouble(neg, d.q, 0 - s, d.sticky)

\* M * 2^e (e < 0) rounded to the nearest integer, ties to even
RoundHalfEven(M, e) ==
    LET d   == 0 - e
        q   == LShr(M, d)
        c   == LCmp(LLow(M, d), LShl(LOne, d - 1))
        odd == q # <<>> /\ q[1] % 2 = 1
    IN  IF c > 0 \/ (c = 0 /\ odd) THEN LAdd(q, LOne) ELSE q

\* Python round(x, 2): the exact value of x rounded to 2 decimals, ties to
\* even, and that decimal converted back to the nearest double
Round2(x) ==
    IF x.m = <<>> \/ x.e >= 0 THEN x
    ELSE FromDecimal(x.neg, RoundHalfEven(LMulSmall(x.m, 100, 0), x.e), 2)

\* the literal 0.01
Tolerancia == FromDecimal(FALSE, <<1>>, 2)

(***************************************************************************)
(* Strings: sequences of one-character strings.                            *)
(***************************************************************************)
Digits == <<"0", "1", "2", "3", "4", "5", "6", "7", "8", "9">>

UpperCase == <<"A", "B", "C", "D", "E", "F", "G", "H", "I", "J", "K", "L", "M",
               "N", "O", "P", "Q", "R", "S", "T", "U", "V", "W", "X", "Y", "Z">>

LowerCase == <<"a", "b", "c", "d", "e", "f", "g", "h", "i", "j", "k", "l", "m",
               "n", "o", "p", "q", "r", "s", "t", "u", "v", "w", "x", "y", "z">>

Range(f) == {f[i] : i \in DOMAIN f}

IndexOf(f, c) == CHOOSE i \in DOMAIN f : f[i] = c

IsDigit(c) == c \in Range(Digits)

DigitVal(c) == IndexOf(Digits, c) - 1

IsAlpha(c) == c \in Range(UpperCase) \cup Range(LowerCase)

IsSpace(c) == c = " "

\* str.lower() and str.upper()
lower(s) == [i \in 1..Len(s) |->
                IF s[i] \in Range(UpperCase) THEN LowerCase[IndexOf(UpperCase, s[i])] ELSE s[i]]

upper(s) == [i \in 1..Len(s) |->
                IF s[i] \in Range(LowerCase) THEN UpperCase[IndexOf(LowerCase, s[i])] ELSE s[i]]

RECURSIVE lstrip(_)
lstrip(s) == IF s # <<>> /\ IsSpace(s[1]) THEN lstrip(Tail(s)) ELSE s

RECURSIVE rstrip(_)
rstrip(s) == IF s # <<>> /\ IsSpace(s[Len(s)]) THEN rstrip(SubSeq(s, 1, Len(s) - 1)) ELSE s

\* str.strip()
strip(s) == rstrip(lstrip(s))

\* str.count(c)
count(s, c) == Cardinality({i \in 1..Len(s) : s[i] = c})

\* str.rfind(c): the 0-based index of the last c, -1 when there is none
rfind(s, c) ==
    IF count(s, c) = 0 THEN -1
    ELSE (CHOOSE i \in 1..Len(s) : s[i] = c /\ \A j \in (i + 1)..Len(s) : s[j] # c) - 1

RECURSIVE replace(_, _, _)
\* str.replace(c, r) for a one-character c and a string r
replace(s, c, r) ==
    IF s = <<>> THEN <<>>
    ELSE (IF s[1] = c THEN r ELSE <<s[1]>>) \o replace(Tail(s), c, r)

RECURSIVE split(_, _)
\* str.split(c)
split(s, c) ==
    IF count(s, c) = 0 THEN <<s>>
    ELSE LET i == CHOOSE j \in 1..Len(s) : s[j] = c /\ \A k \in 1..(j - 1) : s[k] # c
         IN  <<SubSeq(s, 1, i - 1)>> \o split(SubSeq(s, i + 1, Len(s)), c)

AllDigits(s) == \A i \in 1..Len(s) : IsDigit(s[i])

\* re.fullmatch(r'-?\d+', s)
MatchesInteger(s) ==
    LET body == IF s # <<>> /\ s[1] = "-" THEN Tail(s) ELSE s
    IN  body # <<>> /\ AllDigits(body)

RECURSIVE DigitsToNat(_, _)
\* the digits of s read as a decimal natural, from the accumulator acc
DigitsToNat(s, acc) ==
    IF s = <<>> THEN acc
    ELSE DigitsToNat(Tail(s), LMulSmall(acc, 10, DigitVal(s[1])))

RECURSIVE IntToStr(_)
IntToStr(n) == IF n < 10 THEN <<Digits[n + 1]>> ELSE IntToStr(n \div 10) \o <<Digits[(n % 10) + 1]>>

(***************************************************************************)
(* float(s): surrounding whitespace is dropped, then an optional sign and  *)
(* a decimal literal with at least one digit and at most one point.  The   *)
(* exponent, underscore, "inf" and "nan" forms need characters that the    *)
(* numeric strings of the model never contain.                             *)
(***************************************************************************)
NoFloat == [ok |-> FALSE, f |-> FZero]

float(s) ==
    LET t    == strip(s)
        sgn  == t # <<>> /\ t[1] \in {"-", "+"}
        body == IF sgn THEN Tail(t) ELSE t
        dig  == replace(body, ".", <<>>)
    IN  IF dig # <<>> /\ AllDigits(dig) /\ count(body, ".") <= 1
        THEN [ok |-> TRUE,
              f  |-> FromDecimal(sgn /\ t[1] = "-", DigitsToNat(dig, <<>>),
                                 IF count(body, ".") = 0 THEN 0
                                 ELSE Len(body) - rfind(body, ".") - 1)]
        ELSE NoFloat

(***************************************************************************)
(* Python values as parsed JSON delivers them: None (also an absent key    *)
(* read with dict.get), a string, or an integer number.                    *)
(***************************************************************************)
None == [t |-> "none", s |-> <<>>, n |-> 0]

Str(s) == [t |-> "str", s |-> s, n |-> 0]

Num(n) == [t |-> "num", s |-> <<>>, n |-> n]

\* dict.get(k)
Get(d, k) == IF k \in DOMAIN d THEN d[k] ELSE None

\* str(v)
str(v) ==
    IF v.t = "str" THEN v.s
    ELSE IF v.t = "num" THEN (IF v.n < 0 THEN <<"-">> \o IntToStr(0 - v.n) ELSE IntToStr(v.n))
    ELSE <<"N", "o", "n", "e">>

\* bool(v)
Truthy(v) == (v.t = "str" /\ v.s # <<>>) \/ (v.t = "num" /\ v.n # 0)

\* a local variable holding an optional float: not yet assigned, None, or a double
Unbound == [st |-> "unbound", f |-> FZero]

NoneVal == [st |-> "none", f |-> FZero]

Val(f) == [st |-> "val", f |-> f]

OfFloat(r) == IF r.ok THEN Val(r.f) ELSE NoneVal

\* a lone comma with more than 2 characters after it counts as decimal too
ComaDecimalLarga(parts) == Len(parts) = 2 /\ Len(parts[2]) <= 3

\* lines 57-60: exactly one comma, and at most 2 characters after it
ComaDecimal(parts) == Len(parts) = 2 /\ Len(parts[2]) <= 2

\* lines 42-44: the last comma lies after the last point
ComaDespues(s) == rfind(s, ",") > rfind(s, ".")

parse_numeric(num_str) ==
    IF num_str.t = "none" THEN NoneVal
    ELSE LET s0          == strip(str(num_str))
             dot_count   == count(s0, ".")
             comma_count == count(s0, ",")
         IN  IF s0 = <<>> THEN NoneVal
             ELSE IF comma_count > 0 /\ dot_count > 0
             THEN IF ComaDespues(s0)
                  THEN OfFloat(float(replace(replace(s0, ".", <<>>), ",", <<".">>)))
                  ELSE OfFloat(float(replace(s0, ",", <<>>)))
             ELSE IF comma_count > 0 /\ dot_count = 0
             THEN IF ComaDecimal(split(s0, ","))
                  THEN OfFloat(float(replace(s0, ",", <<".">>)))
                  ELSE OfFloat(float(replace(s0, ",", <<>>)))
             ELSE IF dot_count > 0 /\ comma_count = 0
             THEN OfFloat(float(s0))
             ELSE IF MatchesInteger(s0) THEN OfFloat(float(s0)) ELSE NoneVal

(***************************************************************************)
(* datetime.strptime(s, fmt) for the five formats of es_fecha_valida: the  *)
(* whole string must match the directives (%d and %m take one or two       *)
(* digits, %d also a blank and a digit, %Y four digits) and the date must  *)
(* exist in the proleptic Gregorian calendar, years 1 to 9999.             *)
(***************************************************************************)
RECURSIVE StrToInt(_, _)
StrToInt(s, acc) == IF s = <<>> THEN acc ELSE StrToInt(Tail(s), acc * 10 + DigitVal(s[1]))

MatchesDay(p) ==
    \/ Len(p) = 2 /\ AllDigits(p) /\ StrToInt(p, 0) \in 1..31
    \/ Len(p) = 1 /\ AllDigits(p) /\ StrToInt(p, 0) \in 1..9
    \/ Len(p) = 2 /\ p[1] = " " /\ IsDigit(p[2]) /\ p[2] # "0"

MatchesMonth(p) ==
    \/ Len(p) = 2 /\ AllDigits(p) /\ StrToInt(p, 0) \in 1..12
    \/ Len(p) = 1 /\ AllDigits(p) /\ StrToInt(p, 0) \in 1..9

MatchesYear(p) == Len(p) = 4 /\ AllDigits(p)

IsLeap(y) == y % 4 = 0 /\ (y % 100 # 0 \/ y % 400 = 0)

DaysInMonth(y, m) ==
    IF m = 2 THEN (IF IsLeap(y) THEN 29 ELSE 28)
    ELSE IF m \in {4, 6, 9, 11} THEN 30 ELSE 31

DateExists(yp, mp, dp) ==
    LET y == StrToInt(yp, 0)
        m == StrToInt(mp, 0)
        d == StrToInt(strip(dp), 0)
    IN  y >= 1 /\ d <= DaysInMonth(y, m)

\* fmt is <<sep, order>>, order the positions of day, month and year among
\* the three parts
strptime(s, sep, order) ==
    LET parts == split(s, sep)
    IN  /\ Len(parts) = 3
        /\ MatchesDay(parts[order.d])
        /\ MatchesMonth(parts[order.m])
        /\ MatchesYear(parts[order.y])
        /\ DateExists(parts[order.y], parts[order.m], parts[order.d])

formatos == << <<"/", [d |-> 1, m |-> 2, y |-> 3]>>,
               <<"/", [d |-> 2, m |-> 1, y |-> 3]>>,
               <<"-", [d |-> 3, m |-> 2, y |-> 1]>>,
               <<"-", [d |-> 1, m |-> 2, y |-> 3]>>,
               <<"-", [d |-> 2, m |-> 1, y |-> 3]>> >>

\* "True", "False", or "raise" when fecha_str.strip() is called on a value
\* that is not a string
es_fecha_valida(fecha_str) ==
    IF fecha_str.t = "none" THEN "False"
    ELSE IF fecha_str.t # "str" THEN "raise"
    ELSE LET s0 == strip(fecha_str.s)
         IN  IF s0 = <<>> THEN "False"
             ELSE IF \E i \in DOMAIN formatos : strptime(s0, formatos[i][1], formatos[i][2])
             THEN "True" ELSE "False"

(***************************************************************************)
(* Error entries.  campo is the label with the product index kept apart    *)
(* (producto, 0 for a header or record error); motivo names the fixed text *)
(* of the entry and args holds the values its texts interpolate.           *)
(***************************************************************************)
ArgV(v) == [v |-> v, f |-> FZero]

ArgF(f) == [v |-> None, f |-> f]

ArgI(i) == [v |-> Num(i), f |-> FZero]

Error(campo, producto, motivo, args) ==
    [campo |-> campo, producto |-> producto, motivo |-> motivo, args |-> args]

\* the nested function esta_vacio of both rule sets
esta_vacio(valor) ==
    \/ valor.t = "none"
    \/ /\ valor.t = "str"
       /\ \/ strip(valor.s) = <<>>
          \/ lower(strip(valor.s)) \in {<<"n", "/", "a">>, <<"n", "a">>, <<"n", "o", "n", "e">>}

incoterms_validos ==
    {<<"E", "X", "W">>, <<"F", "C", "A">>, <<"F", "A", "S">>, <<"F", "O", "B">>,
     <<"C", "F", "R">>, <<"C", "I", "F">>, <<"C", "P", "T">>, <<"C", "I", "P">>,
     <<"D", "A", "P">>, <<"D", "P", "U">>, <<"D", "D", "P">>, <<"D", "A", "T">>}

\* the 15 header fields in the order validar_campos_principales checks them,
\* each with the label of its error entries
CamposCabecera ==
    << <<"Supplier", "Exportador - Nombre">>,
       <<"SupplierAddress", "Exportador - Dirección">>,
       <<"SupplierTaxID", "Exportador - NIT/ID">>,
       <<"Customer", "Importador - Nombre">>,
       <<"CustomerAddress", "Importador - Dirección">>,
       <<"CustomerTaxID", "Importador - NIT/ID">>,
       <<"InvoiceNumber", "Número de Factura">>,
       <<"InvoiceDate", "Fecha de Factura">>,
       <<"Incoterm", "Incoterm">>,
       <<"PortOfLoading", "Puerto de Carga">>,
       <<"PortOfDischarge", "Puerto de Descarga">>,
       <<"CountryOfOrigin", "País de Origen">>,
       <<"PaymentTerms", "Condiciones de Pago">>,
       <<"Currency", "Moneda">>,
       <<"TotalInvoiceValue", "Valor Total">> >>

\* re.fullmatch(r'^[A-Za-z]{3}$', s)
MatchesCurrency(s) == Len(s) = 3 /\ \A i \in 1..3 : IsAlpha(s[i])

\* the entries one header field contributes, or raised when its check raises
ErroresCampo(campos, i) ==
    LET nombre == CamposCabecera[i][1]
        label  == CamposCabecera[i][2]
        valor  == Get(campos, nombre)
        nada   == [raised |-> FALSE, errores |-> <<>>]
        falta  == [raised |-> FALSE, errores |-> <<Error(label, 0, "falta", <<>>)>>]
        malo   == [raised |-> FALSE,
                   errores |-> <<Error(label, 0, "formato", <<ArgV(valor)>>)>>]
    IN  IF esta_vacio(valor) THEN falta
        ELSE IF nombre = "InvoiceDate"
        THEN LET r == es_fecha_valida(valor)
             IN  IF r = "raise" THEN [raised |-> TRUE, errores |-> <<>>]
                 ELSE IF r = "False" THEN malo ELSE nada
        ELSE IF nombre = "Incoterm"
        THEN IF upper(strip(str(valor))) \notin incoterms_validos THEN malo ELSE nada
        ELSE IF nombre = "Currency"
        THEN IF ~MatchesCurrency(strip(str(valor))) THEN malo ELSE nada
        ELSE IF nombre = "TotalInvoiceValue"
        THEN IF parse_numeric(valor).st = "none" THEN malo ELSE nada
        ELSE nada

RECURSIVE ErroresCampos(_, _)
ErroresCampos(campos, i) ==
    IF i > Len(CamposCabecera) THEN <<>>
    ELSE ErroresCampo(campos, i).errores \o ErroresCampos(campos, i + 1)

\* the list validar_campos_principales returns, or the exception it lets out
validar_campos_principales(campos) ==
    IF \E i \in DOMAIN CamposCabecera : ErroresCampo(campos, i).raised
    THEN [raised |-> TRUE, errores |-> <<>>]
    ELSE [raised |-> FALSE, errores |-> ErroresCampos(campos, 1)]


(***************************************************************************)
(* One iteration of the loop of validar_items.  qty_val, price_val and     *)
(* subtotal_val are locals of the function, assigned only in the branch    *)
(* of a field that is not empty: through an empty field they keep what an  *)
(* earlier iteration left, or stay unassigned.                             *)
(***************************************************************************)
Producto(label, idx, motivo, args) == <<Error(label, idx, motivo, args)>>

\* presence and numeric format of one item field, r being parse_numeric of
\* its value: its entries and the local its parse is assigned to
CampoNumerico(valor, r, label, idx, anterior) ==
    IF esta_vacio(valor)
    THEN [errores |-> Producto(label, idx, "falta", <<ArgI(idx)>>), val |-> anterior]
    ELSE [errores |-> IF r.st = "none"
                      THEN Producto(label, idx, "formato", <<ArgV(valor), ArgI(idx)>>)
                      ELSE <<>>,
          val |-> r]

CampoTexto(valor, label, idx) ==
    IF esta_vacio(valor) THEN Producto(label, idx, "falta", <<ArgI(idx)>>) ELSE <<>>

\* re.fullmatch(r'^\d+(\.\d+)*$', s)
MatchesHSGroups(s) ==
    LET parts == split(s, ".")
    IN  \A i \in DOMAIN parts : parts[i] # <<>> /\ AllDigits(parts[i])

\* re.fullmatch(r'^\d+$', s)
MatchesDigits(s) == s # <<>> /\ AllDigits(s)

\* only the digits left after the points are removed are looked at
CampoHSSinGrupos(hs, idx) ==
    IF esta_vacio(hs) THEN Producto("Código HS", idx, "falta", <<ArgI(idx)>>)
    ELSE IF ~MatchesDigits(replace(strip(str(hs)), ".", <<>>))
    THEN Producto("Código HS", idx, "formato", <<ArgV(hs), ArgI(idx)>>)
    ELSE <<>>

CampoHS(hs, idx) ==
    IF esta_vacio(hs) THEN Producto("Código HS", idx, "falta", <<ArgI(idx)>>)
    ELSE LET hs_code == strip(str(hs))
         IN  IF ~MatchesHSGroups(hs_code) \/ ~MatchesDigits(replace(hs_code, ".", <<>>))
             THEN Producto("Código HS", idx, "formato", <<ArgV(hs), ArgI(idx)>>)
             ELSE <<>>

\* packages_val being parse_numeric(packages)
CampoPaquetes(packages, packages_val, idx) ==
    IF esta_vacio(packages)
    THEN Producto("Número de Paquetes", idx, "falta", <<ArgI(idx)>>)
    ELSE IF packages_val.st = "none" \/ ~FIsInteger(packages_val.f)
    THEN Producto("Número de Paquetes", idx, "formato", <<ArgV(packages), ArgI(idx)>>)
    ELSE <<>>

CampoMoneda(item_currency, moneda_factura, idx) ==
    IF /\ Truthy(item_currency)
       /\ Truthy(moneda_factura)
       /\ upper(strip(str(item_currency))) # upper(strip(str(moneda_factura)))
    THEN Producto("Moneda", idx, "difiere",
                  <<ArgI(idx), ArgV(item_currency), ArgV(moneda_factura)>>)
    ELSE <<>>

\* what the try block adds to suma_items; a NameError on an unassigned
\* subtotal_val is swallowed by the bare except
Acumular(suma, qty_val, price_val, subtotal_val) ==
    IF subtotal_val.st = "val" THEN FAdd(suma, subtotal_val.f)
    ELSE IF qty_val.st = "unbound" \/ price_val.st = "unbound" THEN suma
    ELSE IF subtotal_val.st = "unbound" THEN suma
    ELSE IF qty_val.st = "val" /\ price_val.st = "val"
    THEN FAdd(suma, FMul(qty_val.f, price_val.f))
    ELSE suma

\* abs(a - b) > 0.01
Difiere(a, b) == FGt(FAbs(FSub(a, b)), Tolerancia)

Coherencia(item, idx, qty_val, price_val, subtotal_val) ==
    IF qty_val.st = "val" /\ price_val.st = "val" /\ subtotal_val.st = "val"
    THEN LET expected_subtotal == Round2(FMul(qty_val.f, price_val.f))
         IN  IF Difiere(subtotal_val.f, expected_subtotal)
             THEN Producto("Valor Total Ítem", idx, "no coincide",
                           <<ArgI(idx), ArgV(Get(item, "NetValuePerItem")),
                             ArgV(Get(item, "Quantity")), ArgV(Get(item, "UnitPrice")),
                             ArgF(expected_subtotal)>>)
             ELSE <<>>
    ELSE <<>>

\* the item fields handed to parse_numeric
NumericosItem == {"Quantity", "UnitPrice", "NetValuePerItem", "Weight", "NumberOfPackagesBoxes"}

\* the iteration for item number idx, num[k] being parse_numeric of field k
IterarCampos(item, idx, moneda_factura, loc, num) ==
    LET qty   == CampoNumerico(Get(item, "Quantity"), num["Quantity"], "Cantidad", idx,
                               loc.qty_val)
        price == CampoNumerico(Get(item, "UnitPrice"), num["UnitPrice"], "Precio Unitario",
                               idx, loc.price_val)
        sub   == CampoNumerico(Get(item, "NetValuePerItem"), num["NetValuePerItem"],
                               "Valor Total Ítem", idx, loc.subtotal_val)
        peso  == CampoNumerico(Get(item, "Weight"), num["Weight"], "Peso", idx, NoneVal)
    IN  [qty_val      |-> qty.val,
         price_val    |-> price.val,
         subtotal_val |-> sub.val,
         suma_items   |-> Acumular(loc.suma_items, qty.val, price.val, sub.val),
         errores      |-> loc.errores
                          \o CampoTexto(Get(item, "Description"), "Descripción", idx)
                          \o qty.errores
                          \o CampoTexto(Get(item, "UnitOfMeasurement"), "Unidad", idx)
                          \o price.errores
                          \o sub.errores
                          \o CampoHS(Get(item, "HSCode"), idx)
                          \o peso.errores
                          \o CampoPaquetes(Get(item, "NumberOfPackagesBoxes"),
                                           num["NumberOfPackagesBoxes"], idx)
                          \o CampoMoneda(Get(item, "Currency"), moneda_factura, idx)
                          \o Coherencia(item, idx, qty.val, price.val, sub.val)]

\* the labels of the entries of the eight item fields, in the order the
\* loop body checks the fields
EtiquetasItem ==
    <<"Descripción", "Cantidad", "Unidad", "Precio Unitario", "Valor Total Ítem",
      "Código HS", "Peso", "Número de Paquetes">>

\* the state of validar_items after the iteration for item number idx
IterarItem(item, idx, moneda_factura, loc) ==
    IterarCampos(item, idx, moneda_factura, loc,
                 [k \in NumericosItem |-> parse_numeric(Get(item, k))])

\* a check that is skipped while nothing has been summed
ReconciliacionConSuma(suma_items, total_factura) ==
    IF total_factura.st = "val" /\ suma_items # FZero
    THEN LET suma_redondeada == Round2(suma_items)
         IN  IF Difiere(suma_redondeada, total_factura.f)
             THEN <<Error("Valor Total vs Suma Ítems", 0, "suma",
                          <<ArgF(suma_redondeada), ArgF(total_factura.f)>>)>>
             ELSE <<>>
    ELSE <<>>

\* the check after the loop
Reconciliacion(suma_items, total_factura) ==
    IF total_factura.st = "val"
    THEN LET suma_redondeada == Round2(suma_items)
         IN  IF Difiere(suma_redondeada, total_factura.f)
             THEN <<Error("Valor Total vs Suma Ítems", 0, "suma",
                          <<ArgF(suma_redondeada), ArgF(total_factura.f)>>)>>
             ELSE <<>>
    ELSE <<>>

(***************************************************************************)
(* The input record of validar_factura.                                    *)
(*   forma  "map": data["Fields"] is a mapping (campos);                   *)
(*          "list": data["Fields"] is a list of pair objects (pares);      *)
(*          "flat": there is no "Fields" key and data itself is read as    *)
(*          the header mapping (campos).                                   *)
(*   cont   the item containers present, among Table, Items, Productos.    *)
(* A pair object holds its name under some of Fields/Field/Nombre/name (k) *)
(* and its value under some of Value/Valor/value (v).                      *)
(***************************************************************************)
ClavesNombre == <<"Fields", "Field", "Nombre", "name">>

ClavesValor == <<"Value", "Valor", "value">>

RECURSIVE OrNombre(_, _)
\* item.get("Fields") or item.get("Field") or item.get("Nombre") or item.get("name"),
\* "" standing for any falsy outcome
OrNombre(par, i) ==
    IF i > Len(ClavesNombre) THEN ""
    ELSE IF ClavesNombre[i] \in DOMAIN par.k /\ par.k[ClavesNombre[i]] # ""
    THEN par.k[ClavesNombre[i]]
    ELSE OrNombre(par, i + 1)

RECURSIVE OrValor(_, _)
\* item.get("Value") or item.get("Valor") or item.get("value")
OrValor(par, i) ==
    IF i = Len(ClavesValor) THEN Get(par.v, ClavesValor[i])
    ELSE IF Truthy(Get(par.v, ClavesValor[i])) THEN Get(par.v, ClavesValor[i])
    ELSE OrValor(par, i + 1)

Poner(d, k, v) == [x \in DOMAIN d \cup {k} |-> IF x = k THEN v ELSE d[x]]

RECURSIVE CamposDeLista(_, _, _)
CamposDeLista(pares, i, campos) ==
    IF i > Len(pares) THEN campos
    ELSE LET key   == OrNombre(pares[i], 1)
             value == OrValor(pares[i], 1)
         IN  CamposDeLista(pares, i + 1, IF key # "" THEN Poner(campos, key, value) ELSE campos)

SinCampos == [x \in {} |-> None]

NormalizarCampos(d) ==
    IF d.forma = "list" THEN CamposDeLista(d.pares, 1, SinCampos) ELSE d.campos

SeleccionarItems(d) ==
    IF "Table" \in DOMAIN d.cont THEN d.cont["Table"]
    ELSE IF "Items" \in DOMAIN d.cont THEN d.cont["Items"]
    ELSE IF "Productos" \in DOMAIN d.cont THEN d.cont["Productos"]
    ELSE <<>>

\* total_factura_val of validar_factura
TotalFactura(campos) ==
    IF Get(campos, "TotalInvoiceValue").t # "none"
    THEN parse_numeric(Get(campos, "TotalInvoiceValue"))
    ELSE NoneVal

\* the frame of a call of validar_items: errores = [], suma_items = 0.0 and
\* no other local assigned, whatever an earlier call (anterior) left
\* a running sum that outlives the call
MarcoItemsAcumulado(anterior) ==
    [qty_val |-> Unbound, price_val |-> Unbound, subtotal_val |-> Unbound,
     suma_items |-> anterior.suma_items, errores |-> <<>>]

MarcoItems(anterior) ==
    [qty_val |-> Unbound, price_val |-> Unbound, subtotal_val |-> Unbound,
     suma_items |-> FZero, errores |-> <<>>]

\* a verdict taken from the header and record entries alone
InformeSinItems(errores_totales) ==
    [estado    |-> "devuelto",
     resultado |-> IF \A i \in DOMAIN errores_totales : errores_totales[i].producto > 0
                   THEN "Cumple" ELSE "No cumple",
     errores   |-> errores_totales]

Informe(errores_totales) ==
    [estado    |-> "devuelto",
     resultado |-> IF Len(errores_totales) = 0 THEN "Cumple" ELSE "No cumple",
     errores   |-> errores_totales]

SinInforme == [estado |-> "pendiente", resultado |-> "", errores |-> <<>>]

Excepcion == [estado |-> "excepcion", resultado |-> "", errores |-> <<>>]

(***************************************************************************)
(* State: one call of validar_factura at a time.                           *)
(***************************************************************************)
VARIABLES
    data,               \* the argument of the running call
    pc,                 \* where the call stands
    campos,             \* validar_factura: the normalised header mapping
    items,              \* validar_factura: the item sequence
    errores_totales,    \* validar_factura: the collected entries
    total_factura_val,  \* validar_factura: the parsed header total
    idx,                \* validar_items: number of the last item processed
    qty_val,            \* validar_items: local
    price_val,          \* validar_items: local
    subtotal_val,       \* validar_items: local
    suma_items,         \* validar_items: local
    errores,            \* validar_items: local
    resultado,          \* what the call returned
    historial,          \* the records and reports of the calls before this one
    num_str,            \* parse_numeric on its own: the argument
    num_val,            \* parse_numeric on its own: the result
    files,              \* validar_archivos: the uploaded files
    resultados          \* validar_archivos: the entries of the response

vars == <<data, pc, campos, items, errores_totales, total_factura_val, idx, qty_val,
          price_val, subtotal_val, suma_items, errores, resultado, historial,
          num_str, num_val, files, resultados>>

marco == <<qty_val, price_val, subtotal_val, suma_items, errores>>

aparte == <<historial, num_str, num_val, files, resultados>>

Marco == [qty_val |-> qty_val, price_val |-> price_val, subtotal_val |-> subtotal_val,
          suma_items |-> suma_items, errores |-> errores]

PonerMarco(m) ==
    /\ qty_val' = m.qty_val
    /\ price_val' = m.price_val
    /\ subtotal_val' = m.subtotal_val
    /\ suma_items' = m.suma_items
    /\ errores' = m.errores

\* the state at the entry of validar_factura(d)
Llamada(d) ==
    /\ data = d
    /\ pc = "inicio"
    /\ campos = SinCampos
    /\ items = <<>>
    /\ errores_totales = <<>>
    /\ total_factura_val = NoneVal
    /\ idx = 0
    /\ qty_val = Unbound
    /\ price_val = Unbound
    /\ subtotal_val = Unbound
    /\ suma_items = FZero
    /\ errores = <<>>
    /\ resultado = SinInforme

\* validar_factura, lines 448-468: the header mapping and the item sequence
Normalizar ==
    /\ pc = "inicio"
    /\ campos' = NormalizarCampos(data)
    /\ items' = SeleccionarItems(data)
    /\ pc' = "cabecera"
    /\ UNCHANGED <<data, errores_totales, total_factura_val, idx, marco, resultado, aparte>>

\* validar_factura, line 470: the header rule set; an exception leaves the call
ValidarCabecera ==
    /\ pc = "cabecera"
    /\ LET r == validar_campos_principales(campos)
       IN  IF r.raised
           THEN /\ pc' = "excepcion"
                /\ resultado' = Excepcion
                /\ UNCHANGED errores_totales
           ELSE /\ pc' = "total"
                /\ errores_totales' = errores_totales \o r.errores
                /\ UNCHANGED resultado
    /\ UNCHANGED <<data, campos, items, total_factura_val, idx, marco, aparte>>

\* validar_factura, lines 472-475, and the entry of validar_items
ObtenerTotal ==
    /\ pc = "total"
    /\ total_factura_val' = TotalFactura(campos)
    /\ PonerMarco(MarcoItems(Marco))
    /\ idx' = 0
    /\ pc' = "items"
    /\ UNCHANGED <<data, campos, items, errores_totales, resultado, aparte>>

\* validar_items, lines 283-430: one iteration of the loop
ValidarItem ==
    /\ pc = "items"
    /\ idx < Len(items)
    /\ idx' = idx + 1
    /\ PonerMarco(IterarItem(items[idx + 1], idx + 1, Get(campos, "Currency"), Marco))
    /\ UNCHANGED <<data, pc, campos, items, errores_totales, total_factura_val, resultado,
                   aparte>>

\* the entries of the items put before those of the header
ReconciliarAntes ==
    /\ pc = "items"
    /\ idx = Len(items)
    /\ errores' = errores \o Reconciliacion(suma_items, total_factura_val)
    /\ errores_totales' = errores' \o errores_totales
    /\ pc' = "devolver"
    /\ UNCHANGED <<data, campos, items, total_factura_val, idx, qty_val, price_val,
                   subtotal_val, suma_items, resultado, aparte>>

\* validar_items, lines 431-440, its return and the extend of line 475
Reconciliar ==
    /\ pc = "items"
    /\ idx = Len(items)
    /\ errores' = errores \o Reconciliacion(suma_items, total_factura_val)
    /\ errores_totales' = errores_totales \o errores'
    /\ pc' = "devolver"
    /\ UNCHANGED <<data, campos, items, total_factura_val, idx, qty_val, price_val,
                   subtotal_val, suma_items, resultado, aparte>>

\* validar_factura, lines 476-483
Devolver ==
    /\ pc = "devolver"
    /\ resultado' = Informe(errores_totales)
    /\ pc' = "fin"
    /\ UNCHANGED <<data, campos, items, errores_totales, total_factura_val, idx, marco, aparte>>

Next ==
    \/ Normalizar
    \/ ValidarCabecera
    \/ ObtenerTotal
    \/ ValidarItem
    \/ Reconciliar
    \/ Devolver

MaxLlamadas == 3

\* the caller validates another record once a call has returned or raised;
\* the locals of validar_items keep their last values until it is entered
Otra(d) ==
    /\ pc \in {"fin", "excepcion"}
    /\ historial' = Append(historial, [data |-> data, resultado |-> resultado])
    /\ data' = d
    /\ pc' = "inicio"
    /\ campos' = SinCampos
    /\ items' = <<>>
    /\ errores_totales' = <<>>
    /\ total_factura_val' = NoneVal
    /\ idx' = 0
    /\ resultado' = SinInforme
    /\ UNCHANGED <<marco, num_str, num_val, files, resultados>>

\* the pair objects of a Fields list read as the mapping they spell out
RECURSIVE MapaDe(_, _)
MapaDe(pares, i) ==
    IF i > Len(pares) THEN SinCampos
    ELSE LET k == CHOOSE x \in DOMAIN pares[i].k : TRUE
             v == CHOOSE x \in DOMAIN pares[i].v : TRUE
         IN  Poner(MapaDe(pares, i + 1), pares[i].k[k], pares[i].v[v])

\* parse_numeric called on its own
ParseNumeric ==
    /\ pc = "numero"
    /\ num_val' = parse_numeric(num_str)
    /\ pc' = "numero_fin"
    /\ UNCHANGED <<data, campos, items, errores_totales, total_factura_val, idx, marco,
                   resultado, historial, num_str, files, resultados>>

(***************************************************************************)
(* Input records.                                                          *)
(***************************************************************************)
MaxItems == 2

NombresCabecera == {CamposCabecera[i][1] : i \in DOMAIN CamposCabecera}

NombresItem == {"Description", "Quantity", "UnitOfMeasurement", "UnitPrice",
                "NetValuePerItem", "HSCode", "Weight", "NumberOfPackagesBoxes"}

\* an amount of c hundredths written with two decimals
Centavos(c) == IntToStr(c \div 100) \o <<".">> \o IntToStr((c % 100) \div 10) \o IntToStr(c % 10)

\* a header with every field present and well formed, and the given total
Cabecera(total) ==
    [k \in NombresCabecera |->
        CASE k = "InvoiceDate" -> Str(<<"3", "1", "/", "1", "2", "/", "2", "0", "2", "4">>)
          [] k = "Incoterm" -> Str(<<"f", "o", "b">>)
          [] k = "Currency" -> Str(<<"U", "S", "D">>)
          [] k = "TotalInvoiceValue" -> total
          [] OTHER -> Str(<<"A", "c", "m", "e">>)]

\* an item with every field present and well formed, and the given quantity,
\* unit price and net value
Item(q, p, n) ==
    [k \in NombresItem |->
        CASE k = "Quantity" -> q
          [] k = "UnitPrice" -> p
          [] k = "NetValuePerItem" -> n
          [] k = "HSCode" -> Str(<<"1", "2", "3", "4", ".", "5", "6">>)
          [] k = "Weight" -> Str(<<"1", ",", "5">>)
          [] k = "NumberOfPackagesBoxes" -> Str(<<"2">>)
          [] OTHER -> Str(<<"T", "e">>)]

Quitar(d, k) == [x \in DOMAIN d \ {k} |-> d[x]]

\* d with d[k] = v, the key k missing when v is None
PonerCampo(d, k, v) == IF v.t = "none" THEN Quitar(d, k) ELSE Poner(d, k, v)

Factura(cab, its) ==
    [forma |-> "map", campos |-> cab, pares |-> <<>>, cont |-> [c \in {"Table"} |-> its]]

\* the item of q units at p hundredths each whose net value is off by d hundredths
ItemCentavos(q, p, d) == Item(Str(IntToStr(q)), Str(Centavos(p)), Str(Centavos(q * p + d)))

RECURSIVE SumaCentavos(_)
\* the exact sum, in hundredths, of the net values of items given as <<q, p>>
SumaCentavos(qs) == IF qs = <<>> THEN 0 ELSE qs[1][1] * qs[1][2] + SumaCentavos(Tail(qs))

ItemsExactos(qs) == [i \in 1..Len(qs) |-> ItemCentavos(qs[i][1], qs[i][2], 0)]

Secuencias(S, n) == UNION {[1..k -> S] : k \in 0..n}

\* the ways a field is empty
Vacios == {None, Str(<<>>), Str(<<" ">>), Str(<<"n", "/", "a">>), Str(<<"N", "/", "A">>),
           Str(<<" ", "n", "a">>), Str(<<"N", "o", "n", "e">>)}

ConMoneda(its, m) == [i \in 1..Len(its) |-> Poner(its[i], "Currency", m)]

\* invoices that are valid but for one empty header field, with 0..MaxItems
\* items of 10 x 5.00 = 50.00, with or without a Currency of their own
FamiliaCabecera ==
    {Factura(PonerCampo(Cabecera(Str(Centavos(5000 * n))), CamposCabecera[i][1], v),
             IF m THEN ConMoneda(ItemsExactos([j \in 1..n |-> <<10, 500>>]),
                                 Str(<<"U", "S", "D">>))
             ELSE ItemsExactos([j \in 1..n |-> <<10, 500>>])) :
        i \in DOMAIN CamposCabecera, v \in Vacios, n \in 0..MaxItems, m \in BOOLEAN}

Precios == {<<10, 500>>, <<1, 6>>, <<3, 10>>}

\* the amounts at which doubles are less than 0.01 apart
ItemGrande ==
    Item(Str(<<"7">>),
         Str(<<"5", "4", "2", "4", "0", "8", "5", "4", "4", "7", "2", "3", "0", ".", "9", "4">>),
         Str(<<"3", "7", "9", "6", "8", "5", "9", "8", "1", "3", "0", "6", "1", "6", ".", "5", "8">>))

\* 2 x 1.234,56 = 2.469,12 in the decimal-comma notation
ItemComa ==
    Item(Str(<<"2">>), Str(<<"1", ".", "2", "3", "4", ",", "5", "6">>),
         Str(<<"2", ".", "4", "6", "9", ",", "1", "2">>))

\* invoices with every field present and well formed and exact arithmetic
FamiliaExacta ==
    {Factura(Cabecera(Str(Centavos(SumaCentavos(qs)))), ItemsExactos(qs)) :
        qs \in Secuencias(Precios, MaxItems)}
    \cup {Factura(Cabecera(Get(ItemGrande, "NetValuePerItem")), <<ItemGrande>>),
          Factura(Cabecera(Get(ItemComa, "NetValuePerItem")), <<ItemComa>>)}

Desvios == {-2, -1, 0, 1, 2}

\* one item whose net value is off by a few hundredths, the total agreeing
\* with the net value
FamiliaCentavo ==
    {Factura(Cabecera(Str(Centavos(q[1] * q[2] + d))), <<ItemCentavos(q[1], q[2], d)>>) :
        q \in Precios, d \in Desvios}

Montos == {<<1, 3>>, <<1, 10000>>, <<1, 20000>>}

Ilegible == Str(<<"a", "b", "c">>)

\* exact items against a declared total that is missing, unreadable, or off
\* by a few hundredths
FamiliaTotal ==
    {Factura(PonerCampo(Cabecera(None), "TotalInvoiceValue", t), ItemsExactos(qs)) :
        qs \in Secuencias(Montos, MaxItems), t \in {None, Ilegible, Str(<<"n", "/", "a">>)}}
    \cup UNION {{Factura(Cabecera(Str(Centavos(SumaCentavos(qs) + d))), ItemsExactos(qs)) :
                    d \in {x \in Desvios : SumaCentavos(qs) + x >= 0}} :
                qs \in Secuencias(Montos, MaxItems)}

\* items of 10 x 5.00 = 50.00 with the quantity, the unit price and the net
\* value each present, missing or unreadable
Parciales ==
    {PonerCampo(PonerCampo(PonerCampo(ItemCentavos(10, 500, 0), "Quantity", q),
                           "UnitPrice", p), "NetValuePerItem", n) :
        q \in {None, Str(<<"1", "0">>)},
        p \in {None, Str(<<"5", ".", "0", "0">>)},
        n \in {None, Ilegible, Str(<<"5", "0", ".", "0", "0">>)}}

FamiliaItems ==
    {Factura(Cabecera(Str(Centavos(5000))), its) : its \in Secuencias(Parciales, MaxItems)}

\* values that are not what their field expects
Raros == {Num(0), Num(2024), Ilegible, Str(<<"1", ".", "2", ".", "3">>)}

FamiliaValores ==
    {Factura(Poner(Cabecera(Str(Centavos(5000))), CamposCabecera[i][1], v),
             <<ItemCentavos(10, 500, 0)>>) :
        i \in DOMAIN CamposCabecera, v \in Raros}
    \cup {Factura(Cabecera(Str(Centavos(5000))), <<Poner(ItemCentavos(10, 500, 0), k, v)>>) :
            k \in NombresItem \cup {"Currency"}, v \in Raros}

\* the three fields of the arithmetic check
CamposAritmeticos == {"Quantity", "UnitPrice", "NetValuePerItem"}

\* an item of 1 x 0.06 = 0.06 with one of the three fields missing, empty or
\* unreadable, alone or after a complete item of 10 x 5.00 = 50.00
FamiliaMezcla ==
    {Factura(Cabecera(Str(Centavos(5000))),
             antes \o <<PonerCampo(ItemCentavos(1, 6, 0), k, v)>>) :
        antes \in {<<>>, <<ItemCentavos(10, 500, 0)>>},
        k \in CamposAritmeticos,
        v \in {None, Str(<<>>), Ilegible}}

\* invoices with several faults at once: two header fields, several fields
\* of each of two items, an item Currency that differs, and a total that
\* the items do not add up to
FamiliaVarias ==
    {Factura(Poner(Poner(Cabecera(Str(Centavos(7000))), "Incoterm", Ilegible),
                   "Supplier", Str(<<>>)),
             <<Poner(Quitar(Quitar(ItemCentavos(10, 500, 1), u), "HSCode"),
                     "Currency", Str(<<"E", "U", "R">>)),
               Poner(Quitar(ItemCentavos(1, 6, 0), "Description"), "Weight", v)>>) :
        u \in {"UnitOfMeasurement", "NumberOfPackagesBoxes"},
        v \in {Ilegible, Str(<<"1", ",", "5">>)}}

\* an amount of m thousandths written with three decimals
Milesimas(m) ==
    IntToStr(m \div 1000) \o <<".">> \o IntToStr((m % 1000) \div 100)
    \o IntToStr((m % 100) \div 10) \o IntToStr(m % 10)

\* amounts around 50.00 written with three decimals
Finos == {50000, 50004, 50014, 50026}

\* one item of 10 x 5.00 whose net value, and a total, are written with
\* three decimals
FamiliaMilesimas ==
    {Factura(Cabecera(Str(Milesimas(t))),
             <<Item(Str(<<"1", "0">>), Str(<<"5", ".", "0", "0">>), Str(Milesimas(n)))>>) :
        n \in Finos, t \in Finos}

\* an amount of m thousandths, negative or not, written with three decimals
TotalMilesimas(m) == IF m < 0 THEN <<"-">> \o Milesimas(0 - m) ELSE Milesimas(m)

\* totals around the tolerance of the reconciliation, and a large one
MilesimasSinItems == {-50000, -20, -11, -10, -9, 0, 1, 9, 10, 11, 20, 50000}

\* the item containers of a record without items: no container key, or one
\* of the keys with an empty sequence
SinItems ==
    {[c \in {} |-> <<>>]} \cup {[c \in {k} |-> <<>>] : k \in {"Table", "Items", "Productos"}}

\* records with a valid header and no item, the header under Fields or at
\* the top of the record
FamiliaSinItems ==
    {[forma |-> f, campos |-> Cabecera(Str(TotalMilesimas(m))), pares |-> <<>>, cont |-> c] :
        f \in {"map", "flat"}, m \in MilesimasSinItems, c \in SinItems}

Facturas ==
    FamiliaCabecera \cup FamiliaExacta \cup FamiliaCentavo \cup FamiliaTotal
    \cup FamiliaItems \cup FamiliaValores \cup FamiliaMezcla \cup FamiliaVarias
    \cup FamiliaMilesimas \cup FamiliaSinItems

Init ==
    /\ \E d \in Facturas : Llamada(d)
    /\ historial = <<>>
    /\ num_str = None
    /\ num_val = Unbound
    /\ files = <<>>
    /\ resultados = <<>>

Spec == Init /\ [][Next]_vars

(***************************************************************************)
(* Properties.                                                             *)
(***************************************************************************)
Devuelto == resultado.estado = "devuelto"

\* C1: every report that validar_factura returns has resultado "Cumple" if
\* and only if its errores sequence is empty, and "No cumple" otherwise.
C1_CumpleSiiSinErrores ==
    Devuelto =>
        /\ (resultado.resultado = "Cumple") <=> (resultado.errores = <<>>)
        /\ (resultado.resultado = "No cumple") <=> (resultado.errores # <<>>)

\* a report with item errors only has been returned as "No cumple"
C1_Testigo ==
    /\ Devuelto
    /\ resultado.resultado = "No cumple"
    /\ resultado.errores # <<>>
    /\ \A i \in DOMAIN resultado.errores : resultado.errores[i].producto > 0


Fin == pc = "fin"

\* the header field of d that is empty
CampoVacio(d) ==
    CHOOSE i \in DOMAIN CamposCabecera : esta_vacio(Get(d.campos, CamposCabecera[i][1]))

\* C2: for an otherwise valid invoice, with any number of items, with or
\* without a Currency of their own, in which exactly one of the 15 header
\* fields is empty, the report holds exactly one entry: the presence error of
\* that field.
C2_SoloElErrorDelCampoVacio ==
    (Fin /\ data \in FamiliaCabecera) =>
        resultado.errores = <<Error(CamposCabecera[CampoVacio(data)][2], 0, "falta", <<>>)>>

\* C3: an invoice with all 15 header fields and all 8 fields of every item
\* present and well formed, every net value equal to quantity x unit price
\* and the total equal to the sum of the net values, is returned "Cumple"
\* with no errors.
C3_ExactaCumple ==
    (Fin /\ data \in FamiliaExacta) =>
        resultado.resultado = "Cumple" /\ resultado.errores = <<>>

\* the hundredths a two-decimal string denotes
CentavosDe(v) == StrToInt(replace(v.s, ".", <<>>), 0)

\* by how many hundredths the net value of the item is off quantity x price
DesvioItem(item) ==
    CentavosDe(Get(item, "NetValuePerItem"))
    - StrToInt(Get(item, "Quantity").s, 0) * CentavosDe(Get(item, "UnitPrice"))

Abs(n) == IF n < 0 THEN 0 - n ELSE n

NoCoincide(errs, i) ==
    {j \in DOMAIN errs : errs[j].motivo = "no coincide" /\ errs[j].producto = i}

\* C4: the item arithmetic check is strict: an item whose net value is
\* exactly 0.01 off round(quantity x price, 2) gets no arithmetic-mismatch
\* entry, and an item that is 0.02 off gets exactly one.
C4_ToleranciaEstricta ==
    (Fin /\ data \in FamiliaCentavo) =>
        LET d == Abs(DesvioItem(data.cont["Table"][1]))
            n == Cardinality(NoCoincide(resultado.errores, 1))
        IN  /\ d = 1 => n = 0
            /\ d = 2 => n = 1

RECURSIVE LToInt(_)
LToInt(a) == IF a = <<>> THEN 0 ELSE a[1] + LB * LToInt(Tail(a))

\* the hundredths of x >= 0 rounded to 2 decimals
CentavosRedondeados(x) ==
    IF x.m = <<>> THEN 0
    ELSE IF x.e >= 0 THEN LToInt(LShl(LMulSmall(x.m, 100, 0), x.e))
    ELSE LToInt(RoundHalfEven(LMulSmall(x.m, 100, 0), x.e))

ErroresSuma(errs) == {j \in DOMAIN errs : errs[j].campo = "Valor Total vs Suma Ítems"}

\* C5: after all items, exactly one entry "Valor Total vs Suma Ítems" is
\* emitted if and only if the header total parsed to a number and the item
\* sum rounded to 2 decimals differs from it by more than 0.01; with the
\* header total absent or unreadable there is none.
C5_ReconciliacionSii ==
    (Fin /\ data \in FamiliaTotal) =>
        LET t == Get(data.campos, "TotalInvoiceValue")
            n == Cardinality(ErroresSuma(resultado.errores))
        IN  IF /\ total_factura_val.st = "val"
               /\ Abs(CentavosRedondeados(suma_items) - CentavosDe(t)) > 1
            THEN n = 1 /\ Len(resultado.errores) \in ErroresSuma(resultado.errores)
            ELSE n = 0

\* C8: for a record whose header and items are mappings of absent, string
\* or number values, validar_factura returns a report and never raises.
C8_NuncaLanza == pc # "excepcion"

\* what the item on its own contributes to the sum
Contribucion(item) ==
    LET q == Get(item, "Quantity")
        p == Get(item, "UnitPrice")
        n == Get(item, "NetValuePerItem")
    IN  IF ~esta_vacio(n) /\ parse_numeric(n).st = "val" THEN parse_numeric(n).f
        ELSE IF /\ ~esta_vacio(q) /\ parse_numeric(q).st = "val"
                /\ ~esta_vacio(p) /\ parse_numeric(p).st = "val"
        THEN FMul(parse_numeric(q).f, parse_numeric(p).f)
        ELSE FZero

RECURSIVE SumaContribuciones(_, _)
SumaContribuciones(its, k) ==
    IF k = 0 THEN FZero
    ELSE FAdd(SumaContribuciones(its, k - 1), Contribucion(its[k]))

\* C10: after any sequence of items the running sum equals the sum of each
\* item's own contribution: its net value when present and readable,
\* otherwise quantity x unit price when both are present and readable,
\* otherwise nothing.
C10_SumaDeContribuciones ==
    pc \in {"items", "devolver", "fin"} => suma_items = SumaContribuciones(items, idx)

(***************************************************************************)
(* Several calls in a row.                                                 *)
(***************************************************************************)
FechaNumero == Poner(Cabecera(Str(Centavos(5000))), "InvoiceDate", Num(2024))

LoteRepetir ==
    {Factura(Cabecera(Str(Centavos(5000))), <<>>),
     Factura(Cabecera(Str(Centavos(5000))), <<ItemCentavos(10, 500, 0)>>),
     Factura(Cabecera(Str(Centavos(5000))),
             <<ItemCentavos(10, 500, 0), Quitar(ItemCentavos(10, 500, 0), "NetValuePerItem")>>),
     Factura(Cabecera(Str(Centavos(5000))),
             <<Quitar(ItemCentavos(10, 500, 0), "NetValuePerItem")>>),
     Factura(Cabecera(Ilegible), <<Poner(ItemCentavos(1, 6, 1), "NetValuePerItem", Ilegible)>>),
     Factura(FechaNumero, <<ItemCentavos(10, 500, 0)>>)}

Nueva ==
    /\ Len(historial) + 1 < MaxLlamadas
    /\ \E d \in LoteRepetir : Otra(d)

InitRepetir ==
    /\ \E d \in LoteRepetir : Llamada(d)
    /\ historial = <<>>
    /\ num_str = None
    /\ num_val = Unbound
    /\ files = <<>>
    /\ resultados = <<>>

NextRepetir == Next \/ Nueva

SpecRepetir == InitRepetir /\ [][NextRepetir]_vars

\* the calls that have ended, in order
Terminadas ==
    IF pc \in {"fin", "excepcion"}
    THEN Append(historial, [data |-> data, resultado |-> resultado])
    ELSE historial

\* C6: validation is stateless and deterministic: the same record validated
\* twice, in any order among validations of other records, gets identical
\* reports.
C6_MismoInforme ==
    \A i, j \in DOMAIN Terminadas :
        Terminadas[i].data = Terminadas[j].data
            => Terminadas[i].resultado = Terminadas[j].resultado

\* a record with items has been validated again after a different record
\* that left a sum behind
C6_Testigo ==
    /\ Len(Terminadas) = 3
    /\ Terminadas[1].data = Terminadas[3].data
    /\ Terminadas[2].data # Terminadas[1].data
    /\ Terminadas[2].data.cont["Table"] # <<>>
    /\ Terminadas[3].resultado.estado = "devuelto"
    /\ Terminadas[2].resultado.estado = "devuelto"

(***************************************************************************)
(* A Fields list and the mapping it spells out.                            *)
(***************************************************************************)
\* the header M as a list of pair objects, names under kn, values under kv
Lista(M, kn, kv, its) ==
    [forma  |-> "list",
     campos |-> SinCampos,
     pares  |-> [i \in 1..Len(CamposCabecera) |->
                    [k |-> [x \in {kn} |-> CamposCabecera[i][1]],
                     v |-> [x \in {kv} |-> M[CamposCabecera[i][1]]]]],
     cont   |-> [c \in {"Table"} |-> its]]

Mapas ==
    {Cabecera(Str(Centavos(5000))), Cabecera(Num(50)), Cabecera(Num(0)),
     Poner(Cabecera(Str(Centavos(5000))), "Supplier", Str(<<>>)),
     Poner(Cabecera(Str(Centavos(5000))), "Incoterm", Ilegible),
     FechaNumero}

FamiliaFormas ==
    {Lista(M, kn, kv, its) :
        M \in Mapas, kn \in Range(ClavesNombre), kv \in Range(ClavesValor),
        its \in {<<>>, <<ItemCentavos(10, 500, 0)>>}}

\* the caller validates the record whose Fields entry is the mapping itself
Gemela ==
    /\ data.forma = "list"
    /\ Otra([forma |-> "map", campos |-> MapaDe(data.pares, 1), pares |-> <<>>,
             cont |-> data.cont])

InitFormas ==
    /\ \E d \in FamiliaFormas : Llamada(d)
    /\ historial = <<>>
    /\ num_str = None
    /\ num_val = Unbound
    /\ files = <<>>
    /\ resultados = <<>>

NextFormas == Next \/ Gemela

SpecFormas == InitFormas /\ [][NextFormas]_vars

\* C7: a record whose Fields entry is a list of pair objects, one per entry
\* of a mapping M, names under any of Fields/Field/Nombre/name and values
\* under any of Value/Valor/value, gets the same report as the record whose
\* Fields entry is M.
C7_ListaIgualAMapa ==
    (pc \in {"fin", "excepcion"} /\ data.forma = "map" /\ historial # <<>>)
        => resultado = historial[1].resultado

(***************************************************************************)
(* parse_numeric on every string over digits, point, comma and minus.      *)
(***************************************************************************)
MaxLen == 5

Alfabeto == {"0", "1", ".", ",", "-"}

Cadenas == UNION {[1..n -> Alfabeto] : n \in 0..MaxLen}

InitNum ==
    /\ num_str \in {None} \cup {Str(c) : c \in Cadenas}
    /\ num_val = Unbound
    /\ pc = "numero"
    /\ data = Factura(SinCampos, <<>>)
    /\ campos = SinCampos
    /\ items = <<>>
    /\ errores_totales = <<>>
    /\ total_factura_val = NoneVal
    /\ idx = 0
    /\ qty_val = Unbound
    /\ price_val = Unbound
    /\ subtotal_val = Unbound
    /\ suma_items = FZero
    /\ errores = <<>>
    /\ resultado = SinInforme
    /\ historial = <<>>
    /\ files = <<>>
    /\ resultados = <<>>

NextNum == ParseNumeric

SpecNum == InitNum /\ [][NextNum]_vars

Posiciones(s, c) == {i \in 1..Len(s) : s[i] = c}

Ultima(P) == CHOOSE i \in P : \A j \in P : j <= i

\* the separator the reference rules read as the decimal one, "" for none
SeparadorDecimal(s) ==
    LET P == Posiciones(s, ".")
        C == Posiciones(s, ",")
    IN  IF P # {} /\ C # {} THEN (IF Ultima(C) > Ultima(P) THEN "," ELSE ".")
        ELSE IF C # {} THEN (IF Cardinality(C) = 1 /\ Len(s) - Ultima(C) <= 2 THEN "," ELSE "")
        ELSE IF P # {} THEN "."
        ELSE ""

\* s with the decimal separator written as a point and the other one dropped
Canonica(s) ==
    LET dec     == SeparadorDecimal(s)
        Queda(c) == c \notin {".", ","} \/ c = dec
        t       == SelectSeq(s, Queda)
    IN  [i \in 1..Len(t) |-> IF t[i] = dec THEN "." ELSE t[i]]

\* -?(\d+\.?\d*|\.\d+)
EsLiteral(t) ==
    LET body == IF t # <<>> /\ t[1] = "-" THEN Tail(t) ELSE t
    IN  /\ \A i \in 1..Len(body) : IsDigit(body[i]) \/ body[i] = "."
        /\ Cardinality(Posiciones(body, ".")) <= 1
        /\ \E i \in 1..Len(body) : IsDigit(body[i])

\* the double nearest to the decimal the literal t denotes
ValorLiteral(t) ==
    LET P == Posiciones(t, ".")
    IN  FromDecimal(t[1] = "-",
                    DigitsToNat(SelectSeq(t, IsDigit), <<>>),
                    IF P = {} THEN 0 ELSE Len(t) - Ultima(P))

\* C9: parse_numeric agrees with the reference disambiguation on every
\* string over digits, '.', ',' and '-': with both separators the later one
\* is the decimal separator and the other is dropped; with commas only, a
\* single comma followed by at most 2 characters is the decimal separator
\* and otherwise all commas are dropped; with points only the point is the
\* decimal separator; with neither only -?\d+ parses; anything else, and the
\* empty or absent input, gives no value.
C9_ParseNumericReferencia ==
    pc = "numero_fin" =>
        num_val = IF num_str.t = "str" /\ EsLiteral(Canonica(num_str.s))
                  THEN Val(ValorLiteral(Canonica(num_str.s)))
                  ELSE NoneVal

\* a string with both separators, the comma last, has been parsed to a number
C9_Testigo ==
    /\ pc = "numero_fin"
    /\ num_val.st = "val"
    /\ num_str.t = "str"
    /\ Posiciones(num_str.s, ".") # {}
    /\ Posiciones(num_str.s, ",") # {}
    /\ Ultima(Posiciones(num_str.s, ",")) > Ultima(Posiciones(num_str.s, "."))

(***************************************************************************)
(* The arithmetic check of an item and the item's own fields.              *)
(***************************************************************************)
\* the item has the field, and parse_numeric reads it
Legible(item, k) == ~esta_vacio(Get(item, k)) /\ parse_numeric(Get(item, k)).st = "val"

\* the item's own net value differs from its own quantity x unit price
DifierePropio(item) ==
    Difiere(parse_numeric(Get(item, "NetValuePerItem")).f,
            Round2(FMul(parse_numeric(Get(item, "Quantity")).f,
                        parse_numeric(Get(item, "UnitPrice")).f)))

\* C11: an arithmetic-mismatch entry for item i is emitted only when item
\* i's own Quantity, UnitPrice and NetValuePerItem are all present and all
\* parse, and the comparison is between item i's own three values; an item
\* with any of the three empty or unreadable never gets one.
C11_AritmeticaPropia ==
    pc \in {"items", "devolver", "fin"} =>
        \A j \in DOMAIN errores :
            errores[j].motivo = "no coincide" =>
                /\ \A k \in CamposAritmeticos : Legible(items[errores[j].producto], k)
                /\ DifierePropio(items[errores[j].producto])

(***************************************************************************)
(* The order of the entries of a report.                                   *)
(***************************************************************************)
\* the part of the report an entry belongs to: 0 the header, i the item
\* number i, n + 1 the reconciliation after n items
Seccion(e, n) == IF e.motivo = "suma" THEN n + 1 ELSE e.producto

\* the place of an entry within its part: the place of its field in the
\* order of the checks, the item Currency and the arithmetic check coming
\* after the eight item fields
Rango(e) ==
    IF e.motivo = "suma" THEN 0
    ELSE IF e.producto = 0
    THEN CHOOSE i \in DOMAIN CamposCabecera : CamposCabecera[i][2] = e.campo
    ELSE IF e.motivo = "difiere" THEN Len(EtiquetasItem) + 1
    ELSE IF e.motivo = "no coincide" THEN Len(EtiquetasItem) + 2
    ELSE CHOOSE i \in DOMAIN EtiquetasItem : EtiquetasItem[i] = e.campo

Antes(a, b, n) ==
    \/ Seccion(a, n) < Seccion(b, n)
    \/ Seccion(a, n) = Seccion(b, n) /\ Rango(a) < Rango(b)

\* C12: in every report the entries are in discovery order: the header
\* entries, in the order of the header fields, come before all item
\* entries; every entry of item i comes before every entry of item i + 1;
\* within an item the entries follow the order of the fields Description,
\* Quantity, UnitOfMeasurement, UnitPrice, NetValuePerItem, HSCode, Weight,
\* NumberOfPackagesBoxes; and the reconciliation entry, when there is one,
\* is the last.
C12_OrdenDeDescubrimiento ==
    Devuelto =>
        \A j, k \in DOMAIN resultado.errores :
            j < k => Antes(resultado.errores[j], resultado.errores[k], Len(items))

\* a report with two header entries, several entries for each of two items
\* and the reconciliation entry has been returned
C12_Testigo ==
    /\ Devuelto
    /\ Cardinality({j \in DOMAIN resultado.errores :
                        Seccion(resultado.errores[j], Len(items)) = 0}) >= 2
    /\ \A i \in 1..2 :
          Cardinality({j \in DOMAIN resultado.errores :
                          /\ Seccion(resultado.errores[j], Len(items)) = i
                          /\ resultado.errores[j].motivo \in {"falta", "formato"}}) >= 2
    /\ ErroresSuma(resultado.errores) = {Len(resultado.errores)}

(***************************************************************************)
(* Rounding in the two monetary comparisons.                               *)
(***************************************************************************)
\* C13: in both monetary comparisons, the net value of an item against
\* quantity x unit price and the item sum against the declared total, both
\* values are rounded to 2 decimals before their difference is compared
\* with 0.01: a net value or a total written with more than 2 decimals is
\* judged by its rounding to 2 decimals.
C13_AmbosRedondeados ==
    (Fin /\ data \in FamiliaMilesimas) =>
        /\ (NoCoincide(resultado.errores, 1) # {})
                <=> Difiere(Round2(subtotal_val.f), Round2(FMul(qty_val.f, price_val.f)))
        /\ (ErroresSuma(resultado.errores) # {})
                <=> Difiere(Round2(suma_items), Round2(total_factura_val.f))

(***************************************************************************)
(* The HSCode of an item: every string over a digit, the point, a letter   *)
(* and the blank.                                                          *)
(***************************************************************************)
MaxHS == 4

AlfabetoHS == {"1", ".", "a", " "}

CodigosHS == UNION {[1..n -> AlfabetoHS] : n \in 0..MaxHS}

\* valid invoices of one item of 10 x 5.00 = 50.00 with the given HSCode
FamiliaHS ==
    {Factura(Cabecera(Str(Centavos(5000))),
             <<Poner(ItemCentavos(10, 500, 0), "HSCode", Str(c))>>) : c \in CodigosHS}

InitHS ==
    /\ \E d \in FamiliaHS : Llamada(d)
    /\ historial = <<>>
    /\ num_str = None
    /\ num_val = Unbound
    /\ files = <<>>
    /\ resultados = <<>>

SpecHS == InitHS /\ [][Next]_vars

ErroresHS(errs) ==
    {j \in DOMAIN errs : errs[j].campo = "Código HS" /\ errs[j].motivo = "formato"}

\* C14: for an item whose HSCode is present, an HS-code format entry is
\* emitted if and only if the trimmed value with every point removed is not
\* a non-empty string of digits; any placement of points among the digits
\* is accepted.
C14_HSSoloDigitosYPuntos ==
    (Fin /\ ~esta_vacio(Get(items[1], "HSCode"))) =>
        (ErroresHS(resultado.errores) # {})
            <=> ~MatchesDigits(replace(strip(Get(items[1], "HSCode").s), ".", <<>>))

\* t is made of digits and points, begins and ends with a digit and has no
\* two points in a row
GruposDeDigitos(t) ==
    /\ t # <<>>
    /\ \A i \in DOMAIN t : IsDigit(t[i]) \/ t[i] = "."
    /\ IsDigit(t[1]) /\ IsDigit(t[Len(t)])
    /\ \A i \in 1..(Len(t) - 1) : ~(t[i] = "." /\ t[i + 1] = ".")

\* C14 (amended): for an item whose HSCode is present, an HS-code format
\* entry is emitted if and only if the trimmed value is not a sequence of
\* non-empty groups of digits separated by single points: a point at the
\* start, at the end or next to another point is rejected.
C14_HSGruposDeDigitos ==
    (Fin /\ ~esta_vacio(Get(items[1], "HSCode"))) =>
        (ErroresHS(resultado.errores) # {})
            <=> ~GruposDeDigitos(strip(Get(items[1], "HSCode").s))

\* an HSCode of digits and points only, with a point out of place, has been
\* given a format entry
C14_Testigo ==
    /\ Fin
    /\ ~esta_vacio(Get(items[1], "HSCode"))
    /\ MatchesDigits(replace(strip(Get(items[1], "HSCode").s), ".", <<>>))
    /\ ~GruposDeDigitos(strip(Get(items[1], "HSCode").s))
    /\ ErroresHS(resultado.errores) # {}

(***************************************************************************)
(* The batch endpoint validar_archivos: the contents of a file are bytes,  *)
(* decoded as UTF-8 and loaded as JSON before the engine is called.        *)
(***************************************************************************)
Continuacion(b) == b \in 128..191

RECURSIVE utf8_decode(_, _)
\* contents.decode("utf-8") from byte i on: the code points, or the
\* UnicodeDecodeError of a byte sequence that is not UTF-8
utf8_decode(b, i) ==
    LET c(k)   == IF i + k <= Len(b) THEN b[i + k] ELSE -1
        sigue(n, cp) ==
            LET r == utf8_decode(b, i + n)
            IN  IF r.ok THEN [ok |-> TRUE, s |-> <<cp>> \o r.s] ELSE r
        mal    == [ok |-> FALSE, s |-> <<>>]
    IN  IF i > Len(b) THEN [ok |-> TRUE, s |-> <<>>]
        ELSE IF c(0) < 128 THEN sigue(1, c(0))
        ELSE IF c(0) \in 194..223 /\ Continuacion(c(1))
        THEN sigue(2, (c(0) % 32) * 64 + (c(1) % 64))
        ELSE IF /\ c(0) \in 224..239
                /\ Continuacion(c(1))
                /\ Continuacion(c(2))
                /\ (c(0) = 224 => c(1) >= 160)
                /\ (c(0) = 237 => c(1) <= 159)
        THEN sigue(3, (c(0) % 16) * 4096 + (c(1) % 64) * 64 + (c(2) % 64))
        ELSE IF /\ c(0) \in 240..244
                /\ Continuacion(c(1))
                /\ Continuacion(c(2))
                /\ Continuacion(c(3))
                /\ (c(0) = 240 => c(1) >= 144)
                /\ (c(0) = 244 => c(1) <= 143)
        THEN sigue(4, (c(0) % 8) * 262144 + (c(1) % 64) * 4096 + (c(2) % 64) * 64
                      + (c(3) % 64))
        ELSE mal

\* the code point at position i of a text, -1 past its end
Ch(s, i) == IF i \in 1..Len(s) THEN s[i] ELSE -1

EsDigito(c) == c \in 48..57

EsHex(c) == c \in 48..57 \/ c \in 65..70 \/ c \in 97..102

RECURSIVE SaltarBlancos(_, _)
\* WHITESPACE.match(s, i).end()
SaltarBlancos(s, i) == IF Ch(s, i) \in {32, 9, 10, 13} THEN SaltarBlancos(s, i + 1) ELSE i

RECURSIVE Digitos(_, _)
Digitos(s, i) == IF EsDigito(Ch(s, i)) THEN Digitos(s, i + 1) ELSE i

\* NUMBER_RE matched at i: the end of the match, -1 when there is none
match_number(s, i) ==
    LET j  == IF Ch(s, i) = 45 THEN i + 1 ELSE i
        k  == IF Ch(s, j) = 48 THEN j + 1
              ELSE IF Ch(s, j) \in 49..57 THEN Digitos(s, j + 1)
              ELSE -1
        f  == IF Ch(s, k) = 46 /\ EsDigito(Ch(s, k + 1)) THEN Digitos(s, k + 2) ELSE k
        m  == IF Ch(s, f + 1) \in {43, 45} THEN f + 2 ELSE f + 1
        e  == IF Ch(s, f) \in {101, 69} /\ EsDigito(Ch(s, m)) THEN Digitos(s, m + 1) ELSE f
    IN  IF k = -1 THEN -1 ELSE e

RECURSIVE scanstring(_, _)
\* py_scanstring from the character after the opening quote: the position
\* after the closing quote, -1 for a string that does not end or holds a
\* control character or a bad escape
scanstring(s, i) ==
    LET c == Ch(s, i)
        e == Ch(s, i + 1)
    IN  IF c = -1 THEN -1
        ELSE IF c = 34 THEN i + 1
        ELSE IF c = 92
        THEN IF e \in {34, 92, 47, 98, 102, 110, 114, 116} THEN scanstring(s, i + 2)
             ELSE IF e = 117 /\ \A k \in 2..5 : EsHex(Ch(s, i + k)) THEN scanstring(s, i + 6)
             ELSE -1
        ELSE IF c < 32 THEN -1
        ELSE scanstring(s, i + 1)

\* s[i:i+len(lit)] == lit
Literal(s, i, lit) == \A k \in 1..Len(lit) : Ch(s, i + k - 1) = lit[k]

NoValor == [fin |-> -1, clase |-> ""]

RECURSIVE scan_once(_, _)
RECURSIVE JSONObject(_, _)
RECURSIVE JSONArray(_, _)
\* JSONObject from the quote of a key on: the position after the closing brace
JSONObject(s, i) ==
    LET k == scanstring(s, i + 1)
        c == SaltarBlancos(s, k)
        v == scan_once(s, SaltarBlancos(s, c + 1))
        n == SaltarBlancos(s, v.fin)
        q == SaltarBlancos(s, n + 1)
    IN  IF Ch(s, i) # 34 \/ k = -1 THEN -1
        ELSE IF Ch(s, c) # 58 THEN -1
        ELSE IF v.fin = -1 THEN -1
        ELSE IF Ch(s, n) = 125 THEN n + 1
        ELSE IF Ch(s, n) = 44 THEN JSONObject(s, q)
        ELSE -1

\* JSONArray from the first character of an element on
JSONArray(s, i) ==
    LET v == scan_once(s, i)
        n == SaltarBlancos(s, v.fin)
    IN  IF v.fin = -1 THEN -1
        ELSE IF Ch(s, n) = 93 THEN n + 1
        ELSE IF Ch(s, n) = 44 THEN JSONArray(s, SaltarBlancos(s, n + 1))
        ELSE -1

\* scan_once of json.scanner: the end and the kind of the value that starts
\* at position i
scan_once(s, i) ==
    LET c == Ch(s, i)
        b == SaltarBlancos(s, i + 1)
    IN  IF c = 34 THEN [fin |-> scanstring(s, i + 1), clase |-> "str"]
        ELSE IF c = 123
        THEN [fin |-> IF Ch(s, b) = 125 THEN b + 1 ELSE JSONObject(s, b), clase |-> "dict"]
        ELSE IF c = 91
        THEN [fin |-> IF Ch(s, b) = 93 THEN b + 1 ELSE JSONArray(s, b), clase |-> "list"]
        ELSE IF Literal(s, i, <<110, 117, 108, 108>>) THEN [fin |-> i + 4, clase |-> "None"]
        ELSE IF Literal(s, i, <<116, 114, 117, 101>>) THEN [fin |-> i + 4, clase |-> "bool"]
        ELSE IF Literal(s, i, <<102, 97, 108, 115, 101>>) THEN [fin |-> i + 5, clase |-> "bool"]
        ELSE IF match_number(s, i) # -1 THEN [fin |-> match_number(s, i), clase |-> "num"]
        ELSE IF Literal(s, i, <<78, 97, 78>>) THEN [fin |-> i + 3, clase |-> "num"]
        ELSE IF Literal(s, i, <<73, 110, 102, 105, 110, 105, 116, 121>>)
        THEN [fin |-> i + 8, clase |-> "num"]
        ELSE IF Literal(s, i, <<45, 73, 110, 102, 105, 110, 105, 116, 121>>)
        THEN [fin |-> i + 9, clase |-> "num"]
        ELSE NoValor

\* json.loads of a text: the kind of the value, or the JSONDecodeError of a
\* text that is not one JSON value
json_loads(s) ==
    LET v == scan_once(s, SaltarBlancos(s, 1))
    IN  IF Ch(s, 1) = 65279 THEN [ok |-> FALSE, clase |-> ""]
        ELSE IF v.fin = -1 THEN [ok |-> FALSE, clase |-> ""]
        ELSE IF SaltarBlancos(s, v.fin) # Len(s) + 1 THEN [ok |-> FALSE, clase |-> ""]
        ELSE [ok |-> TRUE, clase |-> v.clase]

\* the mapping no key of which the engine reads
SinDatos == [forma |-> "flat", campos |-> SinCampos, pares |-> <<>>, cont |-> [c \in {} |-> <<>>]]

\* an uploaded file given by its bytes
Crudo(filename, b) == [filename |-> filename, serial |-> FALSE, bytes |-> b, data |-> SinDatos]

\* an uploaded file that holds the UTF-8 JSON text of the record d
Serializado(filename, d) == [filename |-> filename, serial |-> TRUE, bytes |-> <<>>, data |-> d]

\* lines 68-69: contents.decode("utf-8") and json.loads. The bytes of a Crudo
\* file spell none of the keys the engine reads.
Cargar(file) ==
    IF file.serial THEN [st |-> "ok", clase |-> "dict", data |-> file.data]
    ELSE LET t == utf8_decode(file.bytes, 1)
             j == json_loads(t.s)
         IN  IF ~t.ok THEN [st |-> "UnicodeDecodeError", clase |-> "", data |-> SinDatos]
             ELSE IF ~j.ok THEN [st |-> "JSONDecodeError", clase |-> "", data |-> SinDatos]
             ELSE [st |-> "ok", clase |-> j.clase, data |-> SinDatos]

\* lines 86-102: the entry of a file that is not JSON
ErrorArchivo(file) ==
    [filename |-> file.filename, estado |-> "Error",
     detalle |-> [resultado |-> "No cumple",
                  errores |-> <<Error("Archivo", 0, "El archivo no es un JSON válido.", <<>>)>>]]

\* lines 104-120: the entry of a file whose handling raised anything else
ErrorSistema(file) ==
    [filename |-> file.filename, estado |-> "Error",
     detalle |-> [resultado |-> "Error interno",
                  errores |-> <<Error("Sistema", 0, "str(e)", <<>>)>>]]

\* lines 72-84: the entry of a file the engine reported on
Entrada(file, informe) ==
    [filename |-> file.filename,
     estado |-> IF informe.resultado # "" THEN informe.resultado ELSE "Sin estado",
     detalle |-> [resultado |-> informe.resultado, errores |-> informe.errores]]

\* lines 66-70 of the loop body: the next file is read, decoded and loaded
\* and validar_factura is entered; a failure before the engine runs, or at
\* its line 451 for a value that is not a mapping, is caught at once
LeerArchivo ==
    /\ pc = "archivo"
    /\ Len(resultados) < Len(files)
    /\ LET file == files[Len(resultados) + 1]
           c    == Cargar(file)
       IN  IF c.st = "ok" /\ c.clase = "dict"
           THEN /\ data' = c.data
                /\ pc' = "inicio"
                /\ UNCHANGED resultados
           ELSE /\ resultados' = Append(resultados,
                                        IF c.st = "JSONDecodeError" THEN ErrorArchivo(file)
                                        ELSE ErrorSistema(file))
                /\ UNCHANGED <<data, pc>>
    /\ campos' = SinCampos
    /\ items' = <<>>
    /\ errores_totales' = <<>>
    /\ total_factura_val' = NoneVal
    /\ idx' = 0
    /\ resultado' = SinInforme
    /\ UNCHANGED <<marco, historial, num_str, num_val, files>>

\* lines 72-84 and 104-120: the return or the exception of validar_factura
\* becomes the entry of the file
Anotar ==
    /\ pc \in {"fin", "excepcion"}
    /\ Len(resultados) < Len(files)
    /\ resultados' = Append(resultados,
                            IF pc = "excepcion" THEN ErrorSistema(files[Len(resultados) + 1])
                            ELSE Entrada(files[Len(resultados) + 1], resultado))
    /\ pc' = "archivo"
    /\ UNCHANGED <<data, campos, items, errores_totales, total_factura_val, idx, marco,
                   resultado, historial, num_str, num_val, files>>

\* line 122: the response, after the last file
Responder ==
    /\ pc = "archivo"
    /\ Len(resultados) = Len(files)
    /\ pc' = "respondido"
    /\ UNCHANGED <<data, campos, items, errores_totales, total_factura_val, idx, marco,
                   resultado, aparte>>

MaxArchivos == 2

\* files of a few bytes: empty, "{", "{}", " {} ", "[]", "1", a Latin-1 e
\* acute alone and inside a JSON string, the same in UTF-8, and "{}" after a
\* byte order mark; and the serialised records of a valid invoice and of one
\* with a number as InvoiceDate
Archivos ==
    {Crudo("vacio.json", <<>>),
     Crudo("llave.json", <<123>>),
     Crudo("objeto.json", <<123, 125>>),
     Crudo("espacios.json", <<32, 123, 125, 32>>),
     Crudo("lista.json", <<91, 93>>),
     Crudo("uno.json", <<49>>),
     Crudo("latin1.json", <<233>>),
     Crudo("cafe_latin1.json", <<123, 34, 49, 34, 58, 34, 233, 34, 125>>),
     Crudo("cafe_utf8.json", <<123, 34, 49, 34, 58, 34, 195, 169, 34, 125>>),
     Crudo("texto_utf8.json", <<195, 169>>),
     Crudo("bom.json", <<239, 187, 191, 123, 125>>),
     Serializado("valida.json",
                 Factura(Cabecera(Str(Centavos(5000))), <<ItemCentavos(10, 500, 0)>>)),
     Serializado("fecha.json", Factura(FechaNumero, <<ItemCentavos(10, 500, 0)>>))}

InitLote ==
    /\ files \in Secuencias(Archivos, MaxArchivos)
    /\ resultados = <<>>
    /\ pc = "archivo"
    /\ data = SinDatos
    /\ campos = SinCampos
    /\ items = <<>>
    /\ errores_totales = <<>>
    /\ total_factura_val = NoneVal
    /\ idx = 0
    /\ qty_val = Unbound
    /\ price_val = Unbound
    /\ subtotal_val = Unbound
    /\ suma_items = FZero
    /\ errores = <<>>
    /\ resultado = SinInforme
    /\ historial = <<>>
    /\ num_str = None
    /\ num_val = Unbound

NextLote == Next \/ LeerArchivo \/ Anotar \/ Responder

SpecLote == InitLote /\ [][NextLote]_vars

\* the bytes of the file are the UTF-8 encoding of a JSON text
DatoEstructurado(file) == Cargar(file).st = "ok"

UnicoError(entrada, campo) ==
    /\ Len(entrada.detalle.errores) = 1
    /\ entrada.detalle.errores[1].campo = campo

\* C15: the response holds one entry per uploaded file, in upload order; the
\* entry of a file that is not valid structured data holds the single error
\* "Archivo", the entry of a file whose handling fails in any other way holds
\* the single error "Sistema", and whatever happened to the files before it, a
\* file the engine can report on gets the engine's report.
C15_UnaEntradaPorArchivo ==
    pc = "respondido" =>
        /\ Len(resultados) = Len(files)
        /\ \A i \in DOMAIN files :
              /\ resultados[i].filename = files[i].filename
              /\ IF ~DatoEstructurado(files[i]) THEN UnicoError(resultados[i], "Archivo")
                 ELSE IF Cargar(files[i]).clase # "dict" \/ files[i].filename = "fecha.json"
                 THEN UnicoError(resultados[i], "Sistema")
                 ELSE /\ resultados[i].estado \in {"Cumple", "No cumple"}
                      /\ resultados[i].detalle.resultado = resultados[i].estado
                      /\ files[i].filename = "valida.json" => resultados[i].estado = "Cumple"

(***************************************************************************)
(* Records without items.                                                  *)
(***************************************************************************)
\* the thousandths of the total that the header of d declares
MilesimasDe(d) ==
    CHOOSE m \in MilesimasSinItems : Get(d.campos, "TotalInvoiceValue") = Str(TotalMilesimas(m))

\* C16: the absence of items is never reported as an error. For a record
\* with none of the keys Table, Items, Productos, or with an empty item
\* sequence, and a valid header whose total parses to T, the report holds no
\* item entry; it is "Cumple" with no entry when |T| <= 0.01, and otherwise
\* holds exactly one entry, the reconciliation entry that compares the sum 0
\* with T.
C16_SinItemsNoEsError ==
    (Fin /\ data \in FamiliaSinItems) =>
        /\ \A j \in DOMAIN resultado.errores : resultado.errores[j].producto = 0
        /\ IF Abs(MilesimasDe(data)) <= 10
           THEN resultado.resultado = "Cumple" /\ resultado.errores = <<>>
           ELSE /\ resultado.resultado = "No cumple"
                /\ Len(resultado.errores) = 1
                /\ resultado.errores[1].campo = "Valor Total vs Suma Ítems"
                /\ resultado.errores[1].args
                     = <<ArgF(FZero), ArgF(parse_numeric(Get(data.campos, "TotalInvoiceValue")).f)>>

\* a record with no container key and a total of 50.000 has been reported
\* with the reconciliation entry alone
C16_Testigo ==
    /\ Fin
    /\ data \in FamiliaSinItems
    /\ DOMAIN data.cont = {}
    /\ MilesimasDe(data) = 50000
    /\ ErroresSuma(resultado.errores) = {1}
    /\ Len(resultado.errores) = 1
====
